---- MODULE Spec2Model ----
(***************************************************************************)
(* Model of the match scheduler and match-status engine of battle_score:  *)
(* tournament/models.py (Tournament.create_match, update_match_statuses,   *)
(* Match.update_status), tournament/controllers.py (create_next_matches,   *)
(* _create_single_match) and the match views of tournament/web/views.py.   *)
(*                                                                         *)
(* The database of one tournament is the state.  Every request is a        *)
(* process p with a position pc[p]; the steps of a request are the         *)
(* database reads and writes of its handler, in the handler's order.       *)
(***************************************************************************)
EXTENDS Integers, Sequences, FiniteSets, TLC

\* ---------------------------------------------------------------- bounds
MaxTeams == 4
MaxMatches == 3
MaxCap == 2
MaxSeedOrdering == 2
MaxScore == 1
MaxTeamId == 5
MaxMatchId == 4
MaxDate == 2

\* nb_team_matches = None (null=True, models.py:30-32)
NoCap == -1

\* Match.date_end = None (null=True, models.py:143)
NoDate == 0

\* Match.STATUSES and Match.STATUSES_PENDING (models.py:136-141)
STATUSES == {"COMING", "ONGOING", "DONE"}
STATUSES_PENDING == {"COMING", "ONGOING"}

VARIABLES
    teams,                \* tournament.teams: the ids of the teams
    number,               \* Team.number of each team
    next_team_id,         \* the next primary key of the team table
    auto_match_creation,  \* Tournament.auto_match_creation
    nb_team_matches,      \* Tournament.nb_team_matches (NoCap when unset)
    matches,              \* tournament.matches: records id, ordering, status, teams, scores, date_end
    next_id,              \* the next primary key of the match table
    lock,                 \* holder of the tournament row lock, 0 when free
    pc,                   \* position of each request
    call,                 \* the outermost operation each request is running
    local,                \* the local variables of each request
    ret                   \* per request: the last completed call and its result

vars == <<teams, number, next_team_id, auto_match_creation, nb_team_matches, matches, next_id, lock,
          pc, call, local, ret>>

\* The locals of a request that runs nothing
NoLocals ==
    [opponents |-> {}, next_ordering |-> 0, new_match |-> 0,
     new_matches |-> <<>>, update_match_statuses |-> FALSE, team |-> 0,
     available_teams |-> {}]

Procs == DOMAIN pc

\* ------------------------------------------------------- helper operators
Max(S) == CHOOSE x \in S : \A y \in S : y <= x
Min(S) == CHOOSE x \in S : \A y \in S : x <= y

MatchById(ms, id) == CHOOSE m \in ms : m.id = id

\* team.matches
TeamMatches(ms, t) == {m \in ms : t \in m.teams}

\* BaseModel.date_created (auto_now_add): rows are stamped in insertion order,
\* so the primary key orders the creation dates; the tournament predates them.
DateCreated(m) == m.id
TournamentDateCreated == 0

\* Match.save(update_fields=["status"])
SetStatus(ms, id, s) ==
    {IF m.id = id THEN [m EXCEPT !.status = s] ELSE m : m \in ms}

\* match.teams.set(ts)
SetTeams(ms, id, ts) ==
    {IF m.id = id THEN [m EXCEPT !.teams = ts] ELSE m : m \in ms}

\* Mutant: the next ordering taken from the number of matches
GetNextMatchOrdering_Count(ms) == Cardinality(ms) + 1

\* --------------------------------------------------- Tournament (models.py)
\* Tournament.get_next_match_ordering
GetNextMatchOrdering(ms) ==
    LET last_match == IF ms = {} THEN 0 ELSE Max({m.ordering : m \in ms})
    IN  IF last_match # 0 THEN last_match + 1 ELSE 1

\* MatchCreateView.post, "Get next ordering number"
ViewNextOrdering(ms) ==
    IF ms = {} THEN 1 ELSE Max({m.ordering : m \in ms}) + 1

\* Mutant: create_match without select_for_update
CanLock_NoRowLock(p) == TRUE

\* select_for_update on the tournament row: granted when nobody holds it
CanLock(p) == lock = 0

\* Mutant: only the teams with two ONGOING matches count as busy
TeamsOngoing_Twice(ms) ==
    {t \in UNION {m.teams : m \in ms} :
        Cardinality({m \in ms : t \in m.teams /\ m.status = "ONGOING"}) >= 2}

\* Mutant: the teams of COMING matches count as busy too
TeamsOngoing_Pending(ms) == UNION {m.teams : m \in {x \in ms : x.status # "DONE"}}

\* Match.update_status: teams_ongoing
TeamsOngoing(ms) == UNION {m.teams : m \in {x \in ms : x.status = "ONGOING"}}

\* Mutant: any() in place of all() in all_available
NextStatus_AnyAvailable(ms, opps) ==
    IF \E t \in opps : t \notin TeamsOngoing(ms) THEN "ONGOING" ELSE "COMING"

\* Match.update_status: next_status for a match with these opponents
NextStatus(ms, opps) ==
    IF opps \cap TeamsOngoing(ms) = {} THEN "ONGOING" ELSE "COMING"

\* Mutant: update_status called without save=True
UpdateStatus_NoSave(ms, id) == ms

\* Match.update_status(save=True) on the stored match id
UpdateStatus(ms, id) ==
    LET m == MatchById(ms, id)
        next_status == NextStatus(ms, m.teams)
    IN  IF m.status # next_status THEN SetStatus(ms, id, next_status) ELSE ms

\* Mutant: the pass takes every match that is not DONE
ComingMatches_NotDone(ms) == {m \in ms : m.status # "DONE"}

\* Tournament.update_match_statuses: the queryset of the pass
ComingMatches(ms) == {m \in ms : m.status = "COMING"}

\* Mutant: the pass stops after the first match it evaluates
PassFrom_FirstOnly(todo, ms, excluded_teams, ongoing_matches, keep) ==
    IF todo = {} THEN {[matches |-> ms, ongoing_matches |-> ongoing_matches]}
    ELSE {LET after == UpdateStatus(ms, m.id)
          IN  [matches |-> after,
               ongoing_matches |-> IF MatchById(after, m.id).status = "ONGOING"
                                     THEN <<m.id>> ELSE <<>>]
          : m \in {x \in todo : \A y \in todo : x.ordering <= y.ordering}}

\* Tournament.update_match_statuses: the loop over the COMING matches in
\* Meta.ordering order (matches of equal ordering come in either order).
\* Yields every [matches, ongoing_matches] the pass can end with.
RECURSIVE PassFrom(_, _, _, _, _)
PassFrom(todo, ms, excluded_teams, ongoing_matches, keep) ==
    IF todo = {} THEN {[matches |-> ms, ongoing_matches |-> ongoing_matches]}
    ELSE UNION {
        IF keep /\ m.teams \cap excluded_teams # {}
        THEN PassFrom(todo \ {m}, ms, excluded_teams, ongoing_matches, keep)
        ELSE LET after == UpdateStatus(ms, m.id)
                 now == MatchById(after, m.id)
             IN  PassFrom(todo \ {m}, after,
                          IF keep THEN excluded_teams \cup m.teams
                                              ELSE excluded_teams,
                          IF now.status = "ONGOING"
                            THEN Append(ongoing_matches, m.id)
                            ELSE ongoing_matches,
                          keep)
        : m \in {x \in todo : \A y \in todo : x.ordering <= y.ordering}}

\* Mutant: the promoted matches are returned latest first
UpdateMatchStatuses_LatestFirst(ms, keep) ==
    {[matches |-> out.matches,
      ongoing_matches |-> [i \in 1..Len(out.ongoing_matches) |->
                             out.ongoing_matches[Len(out.ongoing_matches) + 1 - i]]]
     : out \in PassFrom({m \in ms : m.status = "COMING"}, ms, {}, <<>>, keep)}

\* Tournament.update_match_statuses (models.py:64-80)
UpdateMatchStatuses(ms, keep) ==
    PassFrom(ComingMatches(ms), ms, {}, <<>>, keep)

\* Mutant: "and" in place of "or" in the guard
Disabled_RequireBoth(auto, nb) == ~auto /\ (nb = NoCap \/ nb = 0)

\* ------------------------------------------ scheduler (controllers.py)
\* create_next_matches, line 25
Disabled(auto, nb) == ~auto \/ nb = NoCap \/ nb = 0

\* annotate(nb_matches=Count("matches"))
NbMatches(ms, t) == Cardinality(TeamMatches(ms, t))

\* annotate(nb_matches_pending=Count(..., status in STATUSES_PENDING))
NbMatchesPending(ms, t) ==
    Cardinality({m \in TeamMatches(ms, t) : m.status \in STATUSES_PENDING})

\* Mutant: the filter keeps only the teams that have no match at all
EligibleTeams_OnlyUnplayed(ts, ms, nb) == {t \in ts : NbMatches(ms, t) = 0 /\ 0 < nb}

\* Mutant: the filter without nb_matches_pending=0
EligibleTeams_IgnorePending(ts, ms, nb) == {t \in ts : NbMatches(ms, t) < nb}

\* .filter(nb_matches__lt=nb_team_matches, nb_matches_pending=0)
EligibleTeams(ts, ms, nb) ==
    {t \in ts : NbMatches(ms, t) < nb /\ NbMatchesPending(ms, t) = 0}

\* last_match_end=Max("matches__date_end", filter=Q(matches__status=DONE)):
\* the latest end time of the team's DONE matches, NULL when none has one
LastMatchEnd(ms, t) ==
    LET ends == {m.date_end : m \in {x \in TeamMatches(ms, t) :
                                       x.status = "DONE" /\ x.date_end # NoDate}}
    IN  IF ends = {} THEN NoDate ELSE Max(ends)

\* The teams of a set that lead it by ascending last_match_end.  Where NULL
\* sorts is the database's choice (first or last), so both orders are kept.
OldestFirst(ms, ts) ==
    LET dated   == {t \in ts : LastMatchEnd(ms, t) # NoDate}
        undated == ts \ dated
        oldest  == {t \in dated :
                       \A u \in dated : LastMatchEnd(ms, t) <= LastMatchEnd(ms, u)}
    IN  (IF undated # {} THEN undated ELSE oldest)
            \cup (IF dated # {} THEN oldest ELSE undated)

FirstTeams_NewestFirst(ts, ms, nb) ==
    LET el    == {t \in ts : NbMatches(ms, t) < nb /\ NbMatchesPending(ms, t) = 0}
        least == {t \in el : \A u \in el : NbMatches(ms, t) <= NbMatches(ms, u)}
    IN  {t \in least : \A u \in least : LastMatchEnd(ms, t) >= LastMatchEnd(ms, u)}

\* .order_by("nb_matches", "last_match_end")[0]: a team of least nb_matches
\* and, among those, one that last_match_end puts first; rows equal on both
\* keys come in any order.
FirstTeams(ts, ms, nb) ==
    LET el    == EligibleTeams(ts, ms, nb)
        least == {t \in el : \A u \in el : NbMatches(ms, t) <= NbMatches(ms, u)}
    IN  OldestFirst(ms, least)

\* _create_single_match: team_encounters[t]["nb_matches"]
Encounters(ms, t, o) == Cardinality({m \in TeamMatches(ms, t) : o \in m.teams})

\* _create_single_match: team_encounters[t]["last_match"]
LastMatch(ms, t, o) ==
    Max({TournamentDateCreated} \cup
        {DateCreated(m) : m \in {x \in TeamMatches(ms, t) : o \in x.teams}})

\* Mutant: any other team can be the opponent
Candidates_AnyOther(ts, ms, t, available) == ts \ {t}

\* Mutant: the teams outside available_teams are preferred
Candidates_AvoidAvailable(ts, ms, t, available) ==
    LET others == ts \ {t}
        min_encouters == Min({Encounters(ms, t, o) : o \in others})
        candidates == {o \in others : Encounters(ms, t, o) = min_encouters}
    IN  IF candidates \ available # {} THEN candidates \ available ELSE candidates

\* Mutant: no preference for the teams of available_teams
Candidates_NoQuickMatch(ts, ms, t, available) ==
    LET others == ts \ {t}
        min_encouters == Min({Encounters(ms, t, o) : o \in others})
    IN  {o \in others : Encounters(ms, t, o) = min_encouters}

\* _create_single_match, lines 78-98: the teams candidates[0] can be
Candidates(ts, ms, t, available) ==
    LET others == ts \ {t}
        min_encouters == Min({Encounters(ms, t, o) : o \in others})
        candidates == {o \in others : Encounters(ms, t, o) = min_encouters}
        quick_match == candidates \cap available
        pool == IF available # {} /\ quick_match # {} THEN quick_match ELSE candidates
    IN  IF min_encouters = 0
        THEN pool
        ELSE {o \in pool : \A u \in pool : LastMatch(ms, t, o) <= LastMatch(ms, t, u)}

\* ------------------------------------------------------------ the requests
\* Mutant: the posted ids are attached whatever their tournament
TournamentTeams_AnyTeam(selected_team_ids, ts) == selected_team_ids

\* Team.objects.filter(id__in=selected_team_ids, tournament=tournament)
\* (views.py:472 and 572)
TournamentTeams(selected_team_ids, ts) == selected_team_ids \cap ts

\* A request leaves its handler: its locals go and its result is recorded.
Return(p, op, args, value, raised) ==
    /\ pc' = [pc EXCEPT ![p] = "idle"]
    /\ call' = [call EXCEPT ![p] = "none"]
    /\ local' = [local EXCEPT ![p] = NoLocals]
    /\ ret' = [ret EXCEPT ![p] =
                 [op |-> op, args |-> args, value |-> value, raised |-> raised]]

\* The model stores at most MaxMatches matches, of ids up to MaxMatchId.
RoomForMatch == Cardinality(matches) < MaxMatches /\ next_id <= MaxMatchId

\* Match.objects.create(tournament, ordering, status=COMING) and teams.set
InsertMatch(ms, id, ordering, ts) ==
    ms \cup {[id |-> id, ordering |-> ordering, status |-> "COMING", teams |-> ts,
              scores |-> {}, date_end |-> NoDate]}

\* Mutant: the match is created without its teams
CreateMatchDB_NoTeams(ms, id, opps) ==
    InsertMatch(ms, id, GetNextMatchOrdering(ms), {})

\* Tournament.create_match run without interruption (models.py:51-62)
CreateMatchDB(ms, id, opps) ==
    UpdateStatus(InsertMatch(ms, id, GetNextMatchOrdering(ms), opps), id)

\* create_next_matches, lines 20-28: the call and its guard
CreateNextMatches(p, update_match_statuses) ==
    /\ pc[p] = "idle"
    /\ IF Disabled(auto_match_creation, nb_team_matches)
       THEN Return(p, "create_next_matches", <<update_match_statuses>>, <<>>, FALSE)
       ELSE /\ pc' = [pc EXCEPT ![p] = "cnm_loop"]
            /\ call' = [call EXCEPT ![p] = "create_next_matches"]
            /\ local' = [local EXCEPT ![p].update_match_statuses = update_match_statuses]
            /\ UNCHANGED ret
    /\ UNCHANGED <<teams, number, next_team_id, auto_match_creation, nb_team_matches, matches, next_id, lock>>

\* create_next_matches, lines 29-52: one iteration of the loop.  The teams
\* queryset is evaluated; teams[0] gets a match from _create_single_match
\* (lines 63-100), which ends in create_match.  With no other team in the
\* tournament min() of an empty sequence raises ValueError at line 78, which
\* nothing catches.
CnmIteration(p) ==
    /\ pc[p] = "cnm_loop"
    /\ EligibleTeams(teams, matches, nb_team_matches) # {}
    /\ \E first \in FirstTeams(teams, matches, nb_team_matches) :
         IF teams \ {first} = {}
         THEN /\ Return(p, "create_next_matches", <<local[p].update_match_statuses>>, <<>>, TRUE)
              /\ UNCHANGED <<matches, next_id>>
         ELSE /\ RoomForMatch
              /\ \E opponent \in Candidates(teams, matches, first,
                     EligibleTeams(teams, matches, nb_team_matches) \ {first}) :
                   matches' = CreateMatchDB(matches, next_id, {first, opponent})
              /\ next_id' = next_id + 1
              /\ local' = [local EXCEPT ![p].new_matches = Append(@, next_id),
                                          ![p].team = first]
              /\ UNCHANGED <<pc, call, ret>>
    /\ UNCHANGED <<teams, number, next_team_id, auto_match_creation, nb_team_matches, lock>>

\* create_next_matches, lines 51-55: no team qualifies, the loop breaks;
\* update_match_statuses runs if asked for, its result is dropped, and
\* new_matches is returned
CnmBreak(p) ==
    /\ pc[p] = "cnm_loop"
    /\ EligibleTeams(teams, matches, nb_team_matches) = {}
    /\ IF local[p].update_match_statuses
       THEN \E out \in UpdateMatchStatuses(matches, TRUE) : matches' = out.matches
       ELSE matches' = matches
    /\ Return(p, "create_next_matches", <<local[p].update_match_statuses>>,
              local[p].new_matches, FALSE)
    /\ UNCHANGED <<teams, number, next_team_id, auto_match_creation, nb_team_matches, next_id, lock>>

\* Tournament.update_match_statuses called on its own (models.py:64-80)
UpdateMatchStatusesCall(p, keep_match_order) ==
    /\ pc[p] = "idle"
    /\ \E out \in UpdateMatchStatuses(matches, keep_match_order) :
         /\ matches' = out.matches
         /\ Return(p, "update_match_statuses", <<keep_match_order>>,
                   out.ongoing_matches, FALSE)
    /\ UNCHANGED <<teams, number, next_team_id, auto_match_creation, nb_team_matches, next_id, lock>>

\* Tournament.create_match (models.py:51-62), the whole call
CreateMatch(p, opps) ==
    /\ pc[p] = "idle"
    /\ RoomForMatch
    /\ matches' = CreateMatchDB(matches, next_id, opps)
    /\ next_id' = next_id + 1
    /\ Return(p, "create_match", <<opps>>, <<next_id>>, FALSE)
    /\ UNCHANGED <<teams, number, next_team_id, auto_match_creation, nb_team_matches, lock>>

\* MatchCreateView.post (views.py:431-476), the whole request: at least two
\* selected ids, the next ordering, the new COMING match, and the teams of
\* this tournament among the selected ids
MatchCreatePost(p, selected_team_ids) ==
    /\ pc[p] = "idle"
    /\ Cardinality(selected_team_ids) >= 2
    /\ RoomForMatch
    /\ matches' = SetTeams(InsertMatch(matches, next_id, ViewNextOrdering(matches), {}),
                           next_id, TournamentTeams(selected_team_ids, teams))
    /\ next_id' = next_id + 1
    /\ Return(p, "view", <<>>, <<>>, FALSE)
    /\ UNCHANGED <<teams, number, next_team_id, auto_match_creation, nb_team_matches, lock>>

\* MatchUpdateView.post (views.py:537-584): the status and the teams are
\* saved; a match that just became DONE starts create_next_matches when the
\* tournament schedules automatically
MatchUpdatePost(p, id, new_status, selected_team_ids) ==
    /\ pc[p] = "idle"
    /\ \E m \in matches : m.id = id
    /\ Cardinality(selected_team_ids) >= 2
    /\ LET old_status == MatchById(matches, id).status
           status == IF new_status \in STATUSES THEN new_status ELSE old_status
       IN  /\ matches' = SetTeams(SetStatus(matches, id, status), id,
                                  TournamentTeams(selected_team_ids, teams))
           /\ IF /\ old_status # "DONE" /\ status = "DONE"
                 /\ auto_match_creation
                 /\ nb_team_matches # NoCap /\ nb_team_matches # 0
                 /\ ~Disabled(auto_match_creation, nb_team_matches)
              THEN /\ pc' = [pc EXCEPT ![p] = "cnm_loop"]
                   /\ call' = [call EXCEPT ![p] = "create_next_matches"]
                   /\ local' = [local EXCEPT ![p].update_match_statuses = TRUE]
                   /\ UNCHANGED ret
              ELSE Return(p, "view", <<>>, <<>>, FALSE)
    /\ UNCHANGED <<teams, number, next_team_id, auto_match_creation, nb_team_matches, next_id, lock>>

\* ------------------------------------------------------------ the ranking
\* list(match.scores.all())[:2]: Score has no Meta.ordering, so any two
\* scores of the match can come first, in either order
ComparedScores(m) ==
    {pair \in m.scores \X m.scores : pair[1] # pair[2]}

\* Mutant: on a draw only the first score's team gets the point
Awarded_FirstOnDraw(s1, s2) ==
    IF s2.value > s1.value THEN {s2.team} ELSE {s1.team}

\* Mutant: a draw awards nothing
Awarded_NoDrawPoint(s1, s2) ==
    IF s1.value > s2.value THEN {s1.team}
    ELSE IF s2.value > s1.value THEN {s2.team}
    ELSE {}

\* get_team_scores, lines 117-124: the teams whose points go up by one
Awarded(s1, s2) ==
    IF s1.value > s2.value THEN {s1.team}
    ELSE IF s2.value > s1.value THEN {s2.team}
    ELSE {s1.team, s2.team}

\* get_team_scores, lines 108-124: the loop over the matches; yields every
\* team_points the loop can end with
RECURSIVE PointsFrom(_, _)
PointsFrom(todo, team_points) ==
    IF todo = {} THEN {team_points}
    ELSE LET match == CHOOSE m \in todo : TRUE
         IN  IF Cardinality(match.scores) < 2
             THEN PointsFrom(todo \ {match}, team_points)
             ELSE UNION {
                 PointsFrom(todo \ {match},
                            [t \in DOMAIN team_points |->
                               IF t \in awarded
                               THEN team_points[t] + 1 ELSE team_points[t]])
                 : awarded \in {Awarded(pair[1], pair[2]) :
                                   pair \in ComparedScores(match)}}

\* tournament.teams.all(): Team has no Meta.ordering, any order can come
TeamOrders(ts) ==
    {order \in [1..Cardinality(ts) -> ts] :
        \A i, j \in 1..Cardinality(ts) : i # j => order[i] # order[j]}

\* get_team_scores, lines 126-128
Rankings(order, team_points) ==
    [i \in 1..Len(order) |->
        [team |-> order[i], total_points |-> team_points[order[i]], rank |-> 0]]

\* get_team_scores, line 131: sorted(key=total_points, reverse=True), a
\* stable sort; no team has more than `points` points
RECURSIVE SortedFrom(_, _)
SortedFrom(rankings, points) ==
    IF points < 0 THEN <<>>
    ELSE SelectSeq(rankings, LAMBDA e : e.total_points = points)
             \o SortedFrom(rankings, points - 1)

\* Mutant: dense ranks, the rank after a tie block is the previous rank + 1
RankedFrom_Dense(sorted_rankings, i, current_rank, current_points) ==
    LET RECURSIVE Go(_, _, _, _)
        Go(s, k, r, pts) ==
            IF k > Len(s) THEN s
            ELSE IF s[k].total_points # pts
                 THEN Go([s EXCEPT ![k].rank = r + 1], k + 1, r + 1, s[k].total_points)
                 ELSE Go([s EXCEPT ![k].rank = r], k + 1, r, pts)
    IN  Go(sorted_rankings, i, current_rank, current_points)

\* get_team_scores, lines 133-140: the ranks, from position i (1-based here,
\* enumerate's i is one less)
RECURSIVE RankedFrom(_, _, _, _)
RankedFrom(sorted_rankings, i, current_rank, current_points) ==
    IF i > Len(sorted_rankings) THEN sorted_rankings
    ELSE IF sorted_rankings[i].total_points # current_points
         THEN RankedFrom([sorted_rankings EXCEPT ![i].rank = i], i + 1,
                         i, sorted_rankings[i].total_points)
         ELSE RankedFrom([sorted_rankings EXCEPT ![i].rank = current_rank], i + 1,
                         current_rank, current_points)

\* Mutant: only the teams that took part in a match are listed
TeamScoreResults_OnlyPlaying(ts, ms) ==
    LET playing == {t \in ts : TeamMatches(ms, t) # {}}
    IN  {RankedFrom(SortedFrom(Rankings(order, team_points), Cardinality(ms)), 1, 0, -1) :
            order \in TeamOrders(playing),
            team_points \in PointsFrom(ms, [t \in ts |-> 0])}

\* GenericSportController.get_team_scores (controllers.py:104-142): every
\* list the call can return
TeamScoreResults(ts, ms) ==
    {RankedFrom(SortedFrom(Rankings(order, team_points), Cardinality(ms)), 1, 0, -1) :
        order \in TeamOrders(ts),
        team_points \in PointsFrom(ms, [t \in ts |-> 0])}

\* get_team_scores called on the tournament
GetTeamScores(p) ==
    /\ pc[p] = "idle"
    /\ \E sorted_rankings \in TeamScoreResults(teams, matches) :
         Return(p, "get_team_scores", <<>>, sorted_rankings, FALSE)
    /\ UNCHANGED <<teams, number, next_team_id, auto_match_creation, nb_team_matches, matches, next_id, lock>>

\* The decimal text of a small number, as a form posts it
Digits == <<"0", "1", "2", "3", "4", "5", "6", "7", "8", "9">>
IntText(v) == Digits[v + 1]

\* What a score field of the form can hold: a number, nothing, or no number
PostedScores == {IntText(v) : v \in 0..MaxScore} \cup {"", "x"}

\* int(score_value) succeeds (views.py:628-634)
IsInt(score_value) == \E v \in 0..MaxScore : IntText(v) = score_value
ParseInt(score_value) == CHOOSE v \in 0..MaxScore : IntText(v) = score_value

\* ScoreUpdateView.post, lines 624-638: the scores of the match after the
\* loop over its teams: a number is stored, an empty field deletes the score,
\* any other text leaves it
PostedOnto(m, posted) ==
    {s \in m.scores : s.team \notin m.teams \/ ~(IsInt(posted[s.team]) \/ posted[s.team] = "")}
        \cup {[team |-> t, value |-> ParseInt(posted[t])] :
                 t \in {u \in m.teams : IsInt(posted[u])}}

\* ScoreUpdateView.post (views.py:613-660), the whole request: the scores are
\* written, a COMING match with a score becomes ONGOING, a posted status is
\* saved, and a match that just became DONE starts create_next_matches when
\* the tournament schedules automatically
ScoreUpdatePost(p, id, posted, new_status) ==
    /\ pc[p] = "idle"
    /\ \E m \in matches : m.id = id
    /\ LET m == MatchById(matches, id)
           old_status == m.status
           has_score == \E t \in m.teams : IsInt(posted[t])
           auto_status == IF old_status = "COMING" /\ has_score
                            THEN "ONGOING" ELSE old_status
           status == IF new_status \in STATUSES THEN new_status ELSE auto_status
       IN  /\ matches' = (matches \ {m}) \cup
                  {[m EXCEPT !.scores = PostedOnto(m, posted), !.status = status]}
           /\ IF /\ old_status # "DONE" /\ status = "DONE"
                 /\ ~Disabled(auto_match_creation, nb_team_matches)
              THEN /\ pc' = [pc EXCEPT ![p] = "cnm_loop"]
                   /\ call' = [call EXCEPT ![p] = "create_next_matches"]
                   /\ local' = [local EXCEPT ![p].update_match_statuses = TRUE]
                   /\ UNCHANGED ret
              ELSE Return(p, "view", <<>>, <<>>, FALSE)
    /\ UNCHANGED <<teams, number, next_team_id, auto_match_creation, nb_team_matches, next_id, lock>>

\* ------------------------------------------------- creations and deletions
\* Mutant: the rows keep their numbers after a deletion
Renumbered_Keep(keys) == {keys}

\* enumerate(queryset.order_by(key), start=1): the new number of each row;
\* rows of equal key come in either order
Renumbered(keys) ==
    LET rows == DOMAIN keys
    IN  {f \in [rows -> 1..Cardinality(rows)] :
            /\ \A a, b \in rows : a # b => f[a] # f[b]
            /\ \A a, b \in rows : keys[a] < keys[b] => f[a] < f[b]}

\* count = max(1, min(count, 50)) (views.py:241)
ClampCount(count) == Max({1, Min({count, 50})})

\* TeamCreateView.post (views.py:238-259): count teams are created, numbered
\* from the highest number of the tournament plus one
TeamCreatePost(p, posted_count) ==
    LET count == ClampCount(posted_count)
        next_number == IF teams = {} THEN 1 ELSE Max({number[t] : t \in teams}) + 1
        created == next_team_id..(next_team_id + count - 1)
    IN  /\ pc[p] = "idle"
        /\ Cardinality(teams) + count <= MaxTeams
        /\ next_team_id + count - 1 <= MaxTeamId
        /\ teams' = teams \cup created
        /\ number' = [t \in teams' |->
                        IF t \in teams THEN number[t]
                        ELSE next_number + (t - next_team_id)]
        /\ next_team_id' = next_team_id + count
        /\ Return(p, "view", <<>>, <<>>, FALSE)
        /\ UNCHANGED <<auto_match_creation, nb_team_matches, matches, next_id, lock>>

\* Team.delete(): the team leaves the matches it is in, its scores go with it
\* (Match.teams, Score.team on_delete=CASCADE, models.py:148, 181)
WithoutTeam(ms, t) ==
    {[m EXCEPT !.teams = @ \ {t}, !.scores = {s \in @ : s.team # t}] : m \in ms}

\* TeamDeleteView.post (views.py:307-327): the team is deleted and the
\* remaining teams are renumbered from 1 in the order of their numbers
TeamDeletePost(p, team_id) ==
    /\ pc[p] = "idle"
    /\ team_id \in teams
    /\ teams' = teams \ {team_id}
    /\ number' \in Renumbered([t \in teams' |-> number[t]])
    /\ matches' = WithoutTeam(matches, team_id)
    /\ Return(p, "view", <<>>, <<>>, FALSE)
    /\ UNCHANGED <<next_team_id, auto_match_creation, nb_team_matches, next_id, lock>>

\* MatchDeleteView.post (views.py:590-607): the match is deleted and the
\* remaining matches are renumbered from 1 in the order of their orderings
MatchDeletePost(p, match_id) ==
    /\ pc[p] = "idle"
    /\ \E m \in matches : m.id = match_id
    /\ LET rest == {m \in matches : m.id # match_id}
       IN  \E f \in Renumbered([id \in {m.id : m \in rest} |->
                                   MatchById(rest, id).ordering]) :
               matches' = {[m EXCEPT !.ordering = f[m.id]] : m \in rest}
    /\ Return(p, "view", <<>>, <<>>, FALSE)
    /\ UNCHANGED <<teams, number, next_team_id, auto_match_creation, nb_team_matches, next_id, lock>>

\* MatchAdmin (admin.py:27-32): the change form of a match saves the posted
\* status and end time; no view of the application writes date_end, and the
\* admin site starts no scheduling
MatchAdminChange(p, id, status, date_end) ==
    /\ pc[p] = "idle"
    /\ \E m \in matches : m.id = id
    /\ status \in STATUSES
    /\ matches' = {IF m.id = id THEN [m EXCEPT !.status = status, !.date_end = date_end]
                               ELSE m : m \in matches}
    /\ Return(p, "admin", <<>>, <<>>, FALSE)
    /\ UNCHANGED <<teams, number, next_team_id, auto_match_creation, nb_team_matches,
                   next_id, lock>>

\* ------------------------------------- the same requests, step by step
\* Two requests of different workers interleave at their database accesses.

\* Tournament.create_match (models.py:51): the call
CmCall(p, opps) ==
    /\ pc[p] = "idle"
    /\ RoomForMatch
    /\ pc' = [pc EXCEPT ![p] = "cm_lock"]
    /\ call' = [call EXCEPT ![p] = "create_match"]
    /\ local' = [local EXCEPT ![p].opponents = opps]
    /\ UNCHANGED <<teams, number, next_team_id, auto_match_creation, nb_team_matches, matches, next_id, lock, ret>>

\* create_match, lines 55-58: the row lock is granted, then the ordering is
\* read (the lock is still held, so both are one step for every other request)
CmLock(p) ==
    /\ pc[p] = "cm_lock"
    /\ CanLock(p)
    /\ lock' = p
    /\ local' = [local EXCEPT ![p].next_ordering = GetNextMatchOrdering(matches)]
    /\ pc' = [pc EXCEPT ![p] = "cm_insert"]
    /\ UNCHANGED <<teams, number, next_team_id, auto_match_creation, nb_team_matches, matches, next_id, call, ret>>

\* create_match, lines 59-60 and the end of the atomic block: the new row and
\* its teams become visible together at commit, which releases the lock
CmInsert(p) ==
    /\ pc[p] = "cm_insert"
    /\ matches' = InsertMatch(matches, next_id, local[p].next_ordering, local[p].opponents)
    /\ next_id' = next_id + 1
    /\ lock' = 0
    /\ local' = [local EXCEPT ![p].new_match = next_id]
    /\ pc' = [pc EXCEPT ![p] = "cm_status"]
    /\ UNCHANGED <<teams, number, next_team_id, auto_match_creation, nb_team_matches, call, ret>>

\* create_match, lines 61-62: new_match.update_status(save=True), return
CmStatus(p) ==
    /\ pc[p] = "cm_status"
    /\ call[p] = "create_match"
    /\ matches' = UpdateStatus(matches, local[p].new_match)
    /\ Return(p, "create_match", <<local[p].opponents>>, <<local[p].new_match>>, FALSE)
    /\ UNCHANGED <<teams, number, next_team_id, auto_match_creation, nb_team_matches, next_id, lock>>

\* MatchCreateView.post, lines 431-459: at least two selected ids, then the
\* read of the last ordering, under no lock
McvPost(p, selected_team_ids) ==
    /\ pc[p] = "idle"
    /\ Cardinality(selected_team_ids) >= 2
    /\ RoomForMatch
    /\ pc' = [pc EXCEPT ![p] = "mcv_create"]
    /\ call' = [call EXCEPT ![p] = "MatchCreateView"]
    /\ local' = [local EXCEPT ![p].opponents = selected_team_ids,
                              ![p].next_ordering = ViewNextOrdering(matches)]
    /\ UNCHANGED <<teams, number, next_team_id, auto_match_creation, nb_team_matches, matches, next_id, lock, ret>>

\* MatchCreateView.post, lines 462-469: Match.objects.create
McvCreate(p) ==
    /\ pc[p] = "mcv_create"
    /\ matches' = InsertMatch(matches, next_id, local[p].next_ordering, {})
    /\ next_id' = next_id + 1
    /\ local' = [local EXCEPT ![p].new_match = next_id]
    /\ pc' = [pc EXCEPT ![p] = "mcv_teams"]
    /\ UNCHANGED <<teams, number, next_team_id, auto_match_creation, nb_team_matches, lock, call, ret>>

\* MatchCreateView.post, lines 471-476: match.teams.set
McvTeams(p) ==
    /\ pc[p] = "mcv_teams"
    /\ matches' = SetTeams(matches, local[p].new_match,
                         TournamentTeams(local[p].opponents, teams))
    /\ Return(p, "view", <<>>, <<>>, FALSE)
    /\ UNCHANGED <<teams, number, next_team_id, auto_match_creation, nb_team_matches, next_id, lock>>

\* create_next_matches step by step.  The call (controllers.py:20-28)
CsCall(p, update_match_statuses) ==
    /\ pc[p] = "idle"
    /\ IF Disabled(auto_match_creation, nb_team_matches)
       THEN Return(p, "create_next_matches", <<update_match_statuses>>, <<>>, FALSE)
       ELSE /\ pc' = [pc EXCEPT ![p] = "cs_scan"]
            /\ call' = [call EXCEPT ![p] = "create_next_matches"]
            /\ local' = [local EXCEPT ![p].update_match_statuses = update_match_statuses]
            /\ UNCHANGED ret
    /\ UNCHANGED <<teams, number, next_team_id, auto_match_creation, nb_team_matches,
                   matches, next_id, lock>>

\* create_next_matches, lines 31-48 and 51-55: "if teams" runs the teams
\* query, under no lock; teams[0] and teams[1:] are read from its result.
\* With no row the loop breaks, the status pass runs and the call returns.
CsScan(p) ==
    /\ pc[p] = "cs_scan"
    /\ IF EligibleTeams(teams, matches, nb_team_matches) = {}
       THEN /\ IF local[p].update_match_statuses
               THEN \E out \in UpdateMatchStatuses(matches, TRUE) : matches' = out.matches
               ELSE matches' = matches
            /\ Return(p, "create_next_matches", <<local[p].update_match_statuses>>,
                      local[p].new_matches, FALSE)
       ELSE /\ \E first \in FirstTeams(teams, matches, nb_team_matches) :
                 local' = [local EXCEPT
                             ![p].team = first,
                             ![p].available_teams =
                                 EligibleTeams(teams, matches, nb_team_matches) \ {first}]
            /\ pc' = [pc EXCEPT ![p] = "cs_encounters"]
            /\ UNCHANGED <<matches, call, ret>>
    /\ UNCHANGED <<teams, number, next_team_id, auto_match_creation, nb_team_matches,
                   next_id, lock>>

\* _create_single_match, lines 63-100: the teams and the anchor's matches
\* are read, under no lock, and the opponent is chosen; create_match is
\* entered with the two teams
CsEncounters(p) ==
    /\ pc[p] = "cs_encounters"
    /\ IF teams \ {local[p].team} = {}
       THEN Return(p, "create_next_matches", <<local[p].update_match_statuses>>, <<>>, TRUE)
       ELSE /\ RoomForMatch
            /\ \E opponent \in Candidates(teams, matches, local[p].team,
                                           local[p].available_teams) :
                 local' = [local EXCEPT ![p].opponents = {local[p].team, opponent}]
            /\ pc' = [pc EXCEPT ![p] = "cm_lock"]
            /\ UNCHANGED <<call, ret>>
    /\ UNCHANGED <<teams, number, next_team_id, auto_match_creation, nb_team_matches,
                   matches, next_id, lock>>

\* create_match, lines 61-62, then create_next_matches, lines 49-50: the
\* status of the new match is updated, the match joins new_matches and the
\* loop starts over
CsStatus(p) ==
    /\ pc[p] = "cm_status"
    /\ call[p] = "create_next_matches"
    /\ matches' = UpdateStatus(matches, local[p].new_match)
    /\ local' = [local EXCEPT ![p].new_matches = Append(@, local[p].new_match)]
    /\ pc' = [pc EXCEPT ![p] = "cs_scan"]
    /\ UNCHANGED <<teams, number, next_team_id, auto_match_creation, nb_team_matches,
                   next_id, lock, call, ret>>

\* ------------------------------------------------------- specifications
\* The selections a form can post: at least two teams of the tournament
Selections == {sel \in SUBSET teams : Cardinality(sel) >= 2}

\* The pairs a caller of create_match passes
Pairs == {sel \in SUBSET teams : Cardinality(sel) = 2}

\* A tournament as TournamentCreateView.form_valid leaves it (views.py:36-48):
\* teams numbered from 1 and no match; the settings views (views.py:353-395)
\* fix auto_match_creation and nb_team_matches before play.
InitTournament(procs) ==
    /\ \E n \in 1..MaxTeams : teams = 1..n
    /\ number = [t \in teams |-> t]
    /\ next_team_id = Cardinality(teams) + 1
    /\ auto_match_creation \in BOOLEAN
    /\ nb_team_matches \in {NoCap} \cup (0..MaxCap)
    /\ lock = 0
    /\ pc = [p \in procs |-> "idle"]
    /\ call = [p \in procs |-> "none"]
    /\ local = [p \in procs |-> NoLocals]
    /\ ret = [p \in procs |->
                [op |-> "none", args |-> <<>>, value |-> <<>>, raised |-> FALSE]]

NoMatches ==
    /\ matches = {}
    /\ next_id = 1

\* The operations, each for any request and any input
DoCreateNextMatches == \E p \in Procs, u \in BOOLEAN : CreateNextMatches(p, u)
DoCnmIteration == \E p \in Procs : CnmIteration(p)
DoCnmBreak == \E p \in Procs : CnmBreak(p)
DoUpdateMatchStatusesCall == \E p \in Procs, k \in BOOLEAN : UpdateMatchStatusesCall(p, k)
DoCreateMatch == \E p \in Procs, opps \in Pairs : CreateMatch(p, opps)
DoMatchCreatePost == \E p \in Procs, sel \in Pairs : MatchCreatePost(p, sel)
DoMatchSetStatus ==
    \E p \in Procs, m \in matches, st \in STATUSES : MatchUpdatePost(p, m.id, st, m.teams)

\* Requests handled one after another
Init == InitTournament({1}) /\ NoMatches

Next ==
    \/ DoCreateNextMatches
    \/ DoCnmIteration
    \/ DoCnmBreak
    \/ DoUpdateMatchStatusesCall
    \/ DoCreateMatch
    \/ DoMatchCreatePost
    \/ DoMatchSetStatus

Spec == Init /\ [][Next]_vars

\* ---- the scheduler alone: auto-scheduling on, no match, matches get DONE
InitAuto ==
    /\ InitTournament({1})
    /\ NoMatches
    /\ auto_match_creation
    /\ nb_team_matches \in 1..MaxCap

DoMatchDone ==
    \E p \in Procs, m \in matches : MatchUpdatePost(p, m.id, "DONE", m.teams)

NextAuto ==
    \/ DoCreateNextMatches
    \/ DoCnmIteration
    \/ DoCnmBreak
    \/ DoMatchDone

SpecAuto == InitAuto /\ [][NextAuto]_vars

\* ---- the scheduler under a fair request thread: a call that has started
\* keeps running.  The teams and the cap are such that the table bound
\* MaxMatches is never what stops the loop.
InitTerm ==
    /\ InitAuto
    /\ nb_team_matches * Cardinality(teams) <= MaxMatches

NextTerm ==
    \/ DoCreateNextMatches
    \/ DoCnmIteration
    \/ DoCnmBreak
    \/ DoMatchSetStatus

SpecTerm ==
    /\ InitTerm
    /\ [][NextTerm]_vars
    /\ WF_vars(DoCnmIteration)
    /\ WF_vars(DoCnmBreak)

\* ---- creations on a tournament that already holds a match of any ordering
\* (Match.objects.create(ordering=5, status=DONE), test_auto_match.py:96)
InitSeeded ==
    /\ InitTournament({1})
    /\ auto_match_creation
    /\ nb_team_matches \in 1..MaxCap
    /\ \/ NoMatches
       \/ /\ \E o \in 0..MaxSeedOrdering :
               matches = {[id |-> 1, ordering |-> o, status |-> "DONE", teams |-> {},
                           scores |-> {}, date_end |-> NoDate]}
          /\ next_id = 2

NextSeeded ==
    \/ DoCreateNextMatches
    \/ DoCnmIteration
    \/ DoCnmBreak
    \/ DoCreateMatch
    \/ DoMatchCreatePost
    \/ DoMatchDone

SpecSeeded == InitSeeded /\ [][NextSeeded]_vars

\* ---- the status pass on any matches the views can build
InitPass ==
    /\ InitTournament({1})
    /\ NoMatches
    /\ ~auto_match_creation
    /\ nb_team_matches = NoCap

DoMatchCreatePostAny == \E p \in Procs, sel \in Selections : MatchCreatePost(p, sel)

NextPass ==
    \/ DoUpdateMatchStatusesCall
    \/ DoCreateMatch
    \/ DoMatchCreatePostAny
    \/ DoMatchSetStatus

SpecPass == InitPass /\ [][NextPass]_vars

\* ---- scores entered on matches built by the creation view, and the ranking
InitScores ==
    /\ InitTournament({1})
    /\ NoMatches
    /\ Cardinality(teams) < MaxTeams
    /\ ~auto_match_creation
    /\ nb_team_matches = NoCap

DoScoreUpdatePost ==
    \E p \in Procs, m \in matches :
        \E posted \in [m.teams -> PostedScores] : ScoreUpdatePost(p, m.id, posted, "")
DoGetTeamScores == \E p \in Procs : GetTeamScores(p)

NextScores ==
    \/ DoMatchCreatePost
    \/ DoScoreUpdatePost
    \/ DoGetTeamScores

SpecScores == InitScores /\ [][NextScores]_vars

\* ---- teams and matches created and deleted, one request after another
InitDense ==
    /\ InitTournament({1})
    /\ NoMatches
    /\ ~auto_match_creation
    /\ nb_team_matches = NoCap

DoTeamCreatePost == \E p \in Procs, count \in 0..2 : TeamCreatePost(p, count)
DoTeamDeletePost == \E p \in Procs, t \in teams : TeamDeletePost(p, t)
DoMatchDeletePost == \E p \in Procs, m \in matches : MatchDeletePost(p, m.id)

NextDense ==
    \/ DoTeamCreatePost
    \/ DoTeamDeletePost
    \/ DoCreateMatch
    \/ DoMatchCreatePost
    \/ DoMatchDeletePost

SpecDense == InitDense /\ [][NextDense]_vars

\* ---- the scheduler on matches that ended at known times: matches are
\* created by the view, closed and dated on the admin site, and scheduled
DoMatchAdminChange ==
    \E p \in Procs, m \in matches, d \in NoDate..MaxDate :
        MatchAdminChange(p, m.id, "DONE", d)

NextTie ==
    \/ DoCreateNextMatches
    \/ DoCnmIteration
    \/ DoCnmBreak
    \/ DoMatchCreatePost
    \/ DoMatchAdminChange

SpecTie == InitAuto /\ [][NextTie]_vars

\* ---- matches created, scheduled, started by the status pass and finished,
\* one request after another
DoOngoingDone ==
    \E p \in Procs, m \in matches :
        m.status = "ONGOING" /\ MatchUpdatePost(p, m.id, "DONE", m.teams)

NextOngoing ==
    \/ DoCreateNextMatches
    \/ DoCnmIteration
    \/ DoCnmBreak
    \/ DoUpdateMatchStatusesCall
    \/ DoCreateMatch
    \/ DoOngoingDone

SpecOngoing == Init /\ [][NextOngoing]_vars

\* ---- the scheduler on matches built and edited by hand, the forms posting
\* any two team ids, of this tournament or not
InitPosted ==
    /\ InitTournament({1})
    /\ NoMatches
    /\ auto_match_creation
    /\ nb_team_matches \in 1..MaxCap

PostedPairs == {sel \in SUBSET (1..MaxTeamId) : Cardinality(sel) = 2}

DoMatchCreatePostPairs == \E p \in Procs, sel \in PostedPairs : MatchCreatePost(p, sel)
DoMatchUpdatePostPairs ==
    \E p \in Procs, m \in matches, st \in STATUSES, sel \in PostedPairs :
        MatchUpdatePost(p, m.id, st, sel)

NextPosted ==
    \/ DoCreateNextMatches
    \/ DoCnmIteration
    \/ DoCnmBreak
    \/ DoMatchCreatePostPairs
    \/ DoMatchUpdatePostPairs

SpecPosted == InitPosted /\ [][NextPosted]_vars

\* ---- two workers creating matches at once, by create_match and by the view
InitConc ==
    /\ InitTournament({1, 2})
    /\ NoMatches
    /\ Cardinality(teams) < MaxTeams  \* the teams do not bear on the ordering
    /\ ~auto_match_creation
    /\ nb_team_matches = NoCap

DoCmCall == \E p \in Procs, opps \in Pairs : CmCall(p, opps)
DoCmLock == \E p \in Procs : CmLock(p)
DoCmInsert == \E p \in Procs : CmInsert(p)
DoCmStatus == \E p \in Procs : CmStatus(p)
DoMcvPost == \E p \in Procs, sel \in Pairs : McvPost(p, sel)
DoMcvCreate == \E p \in Procs : McvCreate(p)
DoMcvTeams == \E p \in Procs : McvTeams(p)

NextConc ==
    \/ DoCmCall
    \/ DoCmLock
    \/ DoCmInsert
    \/ DoCmStatus
    \/ DoMcvPost
    \/ DoMcvCreate
    \/ DoMcvTeams

SpecConc == InitConc /\ [][NextConc]_vars

\* ---- two workers in Tournament.create_match at once
NextLock ==
    \/ DoCmCall
    \/ DoCmLock
    \/ DoCmInsert
    \/ DoCmStatus

SpecLock == InitConc /\ [][NextLock]_vars

\* ---- two workers in create_next_matches at once
InitRace ==
    /\ InitTournament({1, 2})
    /\ NoMatches
    /\ auto_match_creation
    /\ nb_team_matches \in 1..MaxCap

DoCsCall == \E p \in Procs : CsCall(p, TRUE)
DoCsScan == \E p \in Procs : CsScan(p)
DoCsEncounters == \E p \in Procs : CsEncounters(p)
DoCsStatus == \E p \in Procs : CsStatus(p)

NextRace ==
    \/ DoCsCall
    \/ DoCsScan
    \/ DoCsEncounters
    \/ DoCmLock
    \/ DoCmInsert
    \/ DoCsStatus

SpecRace == InitRace /\ [][NextRace]_vars

\* ------------------------------------------------------------ the claims
\* A step of request p in which the scheduler's loop creates a match
SchedulerCreates(p) == pc[p] = "cnm_loop" /\ next_id' = next_id + 1

\* A step that is a whole update_match_statuses(keep_match_order=keep) call
PassStep(p, keep) ==
    /\ pc[p] = "idle" /\ pc'[p] = "idle"
    /\ ret'[p].op = "update_match_statuses"
    /\ ret'[p].args = <<keep>>

\* A request returned from update_match_statuses(keep_match_order=keep)
PassReturned(p, keep) ==
    ret[p].op = "update_match_statuses" /\ ret[p].args = <<keep>>

\* C1: with auto-scheduling alone (create_next_matches calls and matches
\* marked DONE, from no match) every team is in at most nb_team_matches
\* matches of any status.
C1_CapRespected == \A t \in teams : NbMatches(matches, t) <= nb_team_matches

\* C2: the matches created by one create_next_matches call are pairwise
\* team-disjoint.
C2_CallMatchesDisjoint ==
    \A p \in Procs :
        call[p] = "create_next_matches" =>
            \A i, j \in 1..Len(local[p].new_matches) :
                i < j =>
                    MatchById(matches, local[p].new_matches[i]).teams \cap
                    MatchById(matches, local[p].new_matches[j]).teams = {}

\* C3: when the scheduler creates a match, no match that is COMING or
\* ONGOING just before contains both of its teams.
C3_NoSharedPendingMatch ==
    [][\A p \in Procs :
         SchedulerCreates(p) =>
             \A x \in matches :
                 x.status \in STATUSES_PENDING =>
                     ~(MatchById(matches', next_id).teams \subseteq x.teams)]_vars

\* C3 witness: a call returned a match between two teams that had already
\* met in a match that is DONE.
C3_Witness ==
    \E p \in Procs :
        /\ ret[p].op = "create_next_matches"
        /\ \E i \in 1..Len(ret[p].value) :
             \E x \in matches :
                 /\ x.id < ret[p].value[i]
                 /\ x.status = "DONE"
                 /\ MatchById(matches, ret[p].value[i]).teams \subseteq x.teams

\* C4: with auto_match_creation false or nb_team_matches unset, a
\* create_next_matches call returns the empty list at once: no request is
\* ever in the scheduler's loop, and the call leaves every match as it was.
C4_GatedCallDoesNothing ==
    [][(~auto_match_creation \/ nb_team_matches = NoCap) =>
         \A p \in Procs :
             /\ pc'[p] # "cnm_loop"
             /\ (pc[p] = "idle" /\ ret'[p].op = "create_next_matches") =>
                    /\ matches' = matches
                    /\ ret'[p].value = <<>>
                    /\ ~ret'[p].raised]_vars

\* C4 witness: the call returned [] on a tournament with auto_match_creation
\* off although matches exist and teams are under a cap that is set.
C4_Witness ==
    \E p \in Procs :
        /\ ret[p].op = "create_next_matches"
        /\ ret[p].value = <<>>
        /\ ~auto_match_creation
        /\ nb_team_matches >= 1
        /\ matches # {}
        /\ Cardinality(EligibleTeams(teams, matches, nb_team_matches)) >= 2

\* C5: every creation (create_match, the scheduler, the creation view), one
\* after another, gives the new match ordering 1 when the tournament has no
\* match and M+1 when the largest ordering is M, gaps or not.
C5_NextOrderingIsMaxPlusOne ==
    [][next_id' = next_id + 1 =>
         MatchById(matches', next_id).ordering =
             IF matches = {} THEN 1 ELSE Max({m.ordering : m \in matches}) + 1]_vars

\* C5 witness: after a first match of ordering 2 (ordering 1 is a gap) two
\* creations got orderings 3 and 4.
C5_Witness ==
    /\ {m.ordering : m \in matches} = {2, 3, 4}
    /\ \E p \in Procs : ret[p].op \in {"create_match", "view", "create_next_matches"}

\* C6: under concurrent creations, by create_match or by the creation view,
\* the orderings of the matches are distinct and consecutive: they are
\* exactly 1..(number of matches).
C6_OrderingsDense ==
    /\ \A m1, m2 \in matches : m1.id # m2.id => m1.ordering # m2.ordering
    /\ {m.ordering : m \in matches} = 1..Cardinality(matches)

\* C7: create_match holds the tournament lock from before the read of the
\* ordering until the insert, so two concurrent create_match calls never hold
\* the same next ordering and no two matches they insert share an ordering.
C7_LockedOrderingUnique ==
    /\ \A p \in Procs : pc[p] = "cm_insert" =>
           /\ lock = p
           /\ \A m \in matches : m.ordering # local[p].next_ordering
    /\ \A p, q \in Procs : (p # q /\ pc[p] = "cm_insert") => pc[q] # "cm_insert"
    /\ \A m1, m2 \in matches : m1.id # m2.id => m1.ordering # m2.ordering

\* C7 witness: one call holds the lock with its ordering read while the
\* other call waits for the lock, matches being there already.
C7_Witness ==
    \E p, q \in Procs :
        /\ pc[p] = "cm_insert" /\ lock = p
        /\ pc[q] = "cm_lock"
        /\ Cardinality(matches) >= 2

\* C8 as stated: after update_match_statuses(keep_match_order=true) no match
\* is COMING while none of its teams is in an ONGOING match.
C8_NoFreeComingMatch ==
    [][\A p \in Procs :
         PassStep(p, TRUE) =>
             \A m \in matches' :
                 m.status = "COMING" => m.teams \cap TeamsOngoing(matches') # {}]_vars

\* C8 amended: after update_match_statuses(keep_match_order=true) every match
\* still COMING shares a team with an ONGOING match, or shares a team with
\* another match that was COMING before the call and is not later in ordering.
C8_ComingMatchHasReason ==
    [][\A p \in Procs :
         PassStep(p, TRUE) =>
             \A m \in matches' :
                 m.status = "COMING" =>
                     \/ m.teams \cap TeamsOngoing(matches') # {}
                     \/ \E x \in matches :
                          /\ x.id # m.id
                          /\ x.status = "COMING"
                          /\ x.ordering <= m.ordering
                          /\ x.teams \cap m.teams # {}]_vars

\* C8 witness: a pass with keep_match_order=true returned and left COMING a
\* match none of whose teams is in an ONGOING match.
C8_Witness ==
    \E p \in Procs :
        /\ PassReturned(p, TRUE)
        /\ \E m \in matches :
             /\ m.status = "COMING"
             /\ m.teams # {}
             /\ m.teams \cap TeamsOngoing(matches) = {}

\* C9: a match promoted by update_match_statuses shares no team with any
\* other match that is ONGOING, whether it was ONGOING before the pass or
\* was promoted by the pass.
C9_PromotedShareNoOngoingTeam ==
    [][\A p \in Procs :
         (PassStep(p, TRUE) \/ PassStep(p, FALSE)) =>
             \A m \in matches :
                 (m.status = "COMING" /\ MatchById(matches', m.id).status = "ONGOING") =>
                     \A x \in matches' :
                         (x.id # m.id /\ x.status = "ONGOING") =>
                             x.teams \cap m.teams = {}]_vars

\* C9 witness: a pass with keep_match_order=false promoted a match and left
\* COMING a match that shares a team with the promoted one.
C9_Witness ==
    \E p \in Procs :
        /\ PassReturned(p, FALSE)
        /\ \E i \in 1..Len(ret[p].value) :
             \E m \in matches :
                 /\ m.status = "COMING"
                 /\ m.teams \cap MatchById(matches, ret[p].value[i]).teams # {}

\* C10: update_match_statuses leaves every DONE or ONGOING match as it is;
\* the only change it makes to a match is COMING to ONGOING.
C10_OnlyPromotions ==
    [][\A p \in Procs :
         (PassStep(p, TRUE) \/ PassStep(p, FALSE)) =>
             /\ {m.id : m \in matches'} = {m.id : m \in matches}
             /\ \A m \in matches :
                  \/ MatchById(matches', m.id) = m
                  \/ /\ m.status = "COMING"
                     /\ MatchById(matches', m.id) = [m EXCEPT !.status = "ONGOING"]]_vars

\* C10 witness: a pass promoted a match while a DONE match and a match that
\* was ONGOING before the pass are there.
C10_Witness ==
    \E p \in Procs :
        /\ ret[p].op = "update_match_statuses"
        /\ ret[p].value # <<>>
        /\ \E d, o \in matches :
             /\ d.status = "DONE"
             /\ o.status = "ONGOING"
             /\ \A i \in 1..Len(ret[p].value) : ret[p].value[i] # o.id

\* C11: in a pass with keep_match_order=true, of two COMING matches that
\* share a team the later-ordered one is never promoted.
C11_OnlyEarlierPromoted ==
    [][\A p \in Procs :
         PassStep(p, TRUE) =>
             \A x, y \in matches :
                 (/\ x.status = "COMING" /\ y.status = "COMING"
                  /\ x.ordering < y.ordering
                  /\ x.teams \cap y.teams # {}) =>
                     MatchById(matches', y.id).status = "COMING"]_vars

\* A request returned from get_team_scores
ScoresReturned(p) == ret[p].op = "get_team_scores"

\* The entry of team t in a returned list
EntryOf(rankings, t) ==
    rankings[CHOOSE i \in 1..Len(rankings) : rankings[i].team = t]

\* The value team t scored in match m
ValueOf(m, t) == (CHOOSE s \in m.scores : s.team = t).value

\* The matches with exactly two scores that award team t a point: t scored
\* and the other score is not higher
Won2(ms, t) ==
    {m \in ms : /\ Cardinality(m.scores) = 2
                /\ \E s \in m.scores : s.team = t
                /\ \A s \in m.scores : s.value <= ValueOf(m, t)}

\* The matches with more than two scores, one of them by team t
Scored3(ms, t) ==
    {m \in ms : Cardinality(m.scores) > 2 /\ \E s \in m.scores : s.team = t}

\* C12: in the list get_team_scores returns, a team's total_points is the
\* number of two-score matches in which it scored at least as much as the
\* other team (1 for the winner, 0 for the loser, 1 each on a draw), matches
\* with fewer than two scores counting for nothing; a match with more than
\* two scores adds at most one point to a team that scored in it.
C12_PointsPerMatch ==
    \A p \in Procs :
        ScoresReturned(p) =>
            \A t \in teams :
                LET total_points == EntryOf(ret[p].value, t).total_points
                IN  /\ total_points >= Cardinality(Won2(matches, t))
                    /\ total_points <= Cardinality(Won2(matches, t))
                                         + Cardinality(Scored3(matches, t))

\* C12 witness: a returned list where a match with one score, a match won
\* and a match drawn were counted
C12_Witness ==
    \E p \in Procs :
        /\ ScoresReturned(p)
        /\ \E d, w, o \in matches :
             /\ Cardinality(d.scores) = 2 /\ \A s, u \in d.scores : s.value = u.value
             /\ Cardinality(w.scores) = 2 /\ \E s, u \in w.scores : s.value < u.value
             /\ Cardinality(o.scores) = 1
        /\ \E t \in teams : EntryOf(ret[p].value, t).total_points = 2

\* C13: the list get_team_scores returns is sorted by total_points, highest
\* first, and the rank of every entry is 1 plus the number of teams with
\* strictly more points (ties share a rank, the rank after a tie block is
\* the 1-based position).
C13_SortedCompetitiveRanks ==
    \A p \in Procs :
        ScoresReturned(p) =>
            LET r == ret[p].value
            IN  /\ \A i, j \in 1..Len(r) :
                     i < j => r[i].total_points >= r[j].total_points
                /\ \A i \in 1..Len(r) :
                     r[i].rank = 1 + Cardinality({j \in 1..Len(r) :
                                     r[j].total_points > r[i].total_points})

\* C13 witness: a returned list with points 2, 1, 1 and ranks 1, 2, 2, or
\* with points 1, 1, 0 and ranks 1, 1, 3
C13_Witness ==
    \E p \in Procs :
        /\ ScoresReturned(p)
        /\ Len(ret[p].value) = 3
        /\ LET r == ret[p].value
           IN  \/ /\ <<r[1].total_points, r[2].total_points, r[3].total_points>> = <<2, 1, 1>>
                  /\ <<r[1].rank, r[2].rank, r[3].rank>> = <<1, 2, 2>>
               \/ /\ <<r[1].total_points, r[2].total_points, r[3].total_points>> = <<1, 1, 0>>
                  /\ <<r[1].rank, r[2].rank, r[3].rank>> = <<1, 1, 3>>

\* C14: the list get_team_scores returns holds every team of the tournament
\* exactly once, teams without a match included; while no match has two
\* scores every entry has 0 points and rank 1.
C14_OneEntryPerTeam ==
    \A p \in Procs :
        ScoresReturned(p) =>
            LET r == ret[p].value
            IN  /\ Len(r) = Cardinality(teams)
                /\ \A t \in teams : \E i \in 1..Len(r) : r[i].team = t
                /\ (\A m \in matches : Cardinality(m.scores) < 2) =>
                       \A i \in 1..Len(r) : r[i].total_points = 0 /\ r[i].rank = 1

\* C14 witness: a returned list for three teams, one of them in no match,
\* while matches exist and none has two scores
C14_Witness ==
    \E p \in Procs :
        /\ ScoresReturned(p)
        /\ Cardinality(teams) = 3
        /\ Len(ret[p].value) = 3
        /\ matches # {}
        /\ \E m \in matches : Cardinality(m.scores) = 1
        /\ \A m \in matches : Cardinality(m.scores) < 2
        /\ \E t \in teams : TeamMatches(matches, t) = {}

\* The ids a returned call lists
Returned(p) == {ret[p].value[i] : i \in 1..Len(ret[p].value)}

\* C15: a create_next_matches call on an even number 2k of teams and no
\* prior match (every match of the tournament is one it created) returns k
\* matches and every team is in exactly one of them.
C15_EvenTeamsAllPaired ==
    \A p \in Procs :
        (/\ ret[p].op = "create_next_matches"
         /\ Cardinality(teams) % 2 = 0
         /\ Returned(p) = {m.id : m \in matches}) =>
            /\ ~ret[p].raised
            /\ 2 * Len(ret[p].value) = Cardinality(teams)
            /\ \A t \in teams : NbMatches(matches, t) = 1

\* C15 witness: a call on four teams and no match returned two matches
C15_Witness ==
    \E p \in Procs :
        /\ ret[p].op = "create_next_matches"
        /\ Cardinality(teams) = 4
        /\ Len(ret[p].value) = 2
        /\ Returned(p) = {m.id : m \in matches}

\* The teams with a COMING or ONGOING match among the matches that existed
\* before request p's create_next_matches call created any
PendingBeforeCall(p) ==
    {t \in teams :
        \E m \in TeamMatches(matches, t) :
            /\ m.status \in STATUSES_PENDING
            /\ \A i \in 1..Len(local[p].new_matches) : local[p].new_matches[i] # m.id}

\* C16: no match created by a create_next_matches call contains a team that
\* had a COMING or ONGOING match before the call.
C16_PendingTeamsNotPaired ==
    [][\A p \in Procs :
         SchedulerCreates(p) =>
             MatchById(matches', next_id).teams \cap PendingBeforeCall(p) = {}]_vars

\* C17: a create_next_matches call on a tournament with exactly one team
\* raises no exception.
C17_SingleTeamNoRaise ==
    \A p \in Procs :
        (ret[p].op = "create_next_matches" /\ Cardinality(teams) = 1) => ~ret[p].raised

\* The teams the scheduler's queryset holds
Eligible == EligibleTeams(teams, matches, nb_team_matches)

\* C18: every create_next_matches call terminates: each iteration that
\* creates a match leaves strictly fewer eligible teams, none new and the
\* anchor gone, the list of created matches is never longer than the teams
\* are many, and a call inside its loop always comes to its end.
C18_CallTerminates ==
    /\ [][\A p \in Procs :
            SchedulerCreates(p) =>
                /\ Eligible' \subseteq Eligible
                /\ Eligible' # Eligible
                /\ Len(local'[p].new_matches) <= Cardinality(teams)]_vars
    /\ \A p \in {1} : (pc[p] = "cnm_loop") ~> (pc[p] = "idle")

\* C18 witness: a call that ran its loop twice has returned
C18_Witness ==
    \E p \in Procs :
        /\ ret[p].op = "create_next_matches"
        /\ ~ret[p].raised
        /\ pc[p] = "idle"
        /\ Len(ret[p].value) = 2

\* C19: with creations and deletions of teams and matches done one after
\* another, the team numbers are exactly 1..(number of teams) and the match
\* orderings exactly 1..(number of matches), one each; the teams (matches)
\* that stay after a deletion keep their relative order.
C19_DenseNumbering ==
    /\ [](/\ DOMAIN number = teams
          /\ {number[t] : t \in teams} = 1..Cardinality(teams)
          /\ {m.ordering : m \in matches} = 1..Cardinality(matches))
    /\ [][/\ \A a, b \in teams' \cap teams :
               number[a] < number[b] => number'[a] < number'[b]
          /\ \A a, b \in matches : \A x, y \in matches' :
               (a.id = x.id /\ b.id = y.id /\ a.ordering < b.ordering) =>
                   x.ordering < y.ordering]_vars

\* C19 witness: the team of number 1 was deleted and later teams created, and
\* a match that was not the last was deleted: numbers and ids differ
C19_Witness ==
    /\ Cardinality(teams) >= 3
    /\ \E t \in teams : number[t] # t
    /\ Cardinality(matches) >= 2
    /\ \E m \in matches : m.ordering # m.id
    /\ next_team_id > Cardinality(teams) + 1

Shared(ms, a, b) == Cardinality({m \in ms : a \in m.teams /\ b \in m.teams})

\* C21: the match a scheduling iteration creates holds the anchor, a team at
\* the head of the queryset, and one other team of the tournament that shares
\* with the anchor the fewest prior matches among all other teams; so the two
\* have met before only if the anchor has met every other team.
C21_OpponentHasFewestEncounters ==
    [][\A p \in Procs :
         SchedulerCreates(p) =>
             LET new_match == MatchById(matches', next_id)
             IN  \E team \in FirstTeams(teams, matches, nb_team_matches) :
                   \E opponent \in teams \ {team} :
                     /\ new_match.teams = {team, opponent}
                     /\ \A o \in teams \ {team} :
                          Shared(matches, team, opponent) <= Shared(matches, team, o)
                     /\ Shared(matches, team, opponent) > 0 =>
                          \A o \in teams \ {team} : Shared(matches, team, o) > 0]_vars

\* C21 witness: among three teams the scheduler has paired two teams that had
\* not met, the anchor having met the third; or it has paired again the two
\* teams of a tournament
C21_Witness ==
    \E p \in Procs :
        /\ ret[p].op = "create_next_matches"
        /\ Len(ret[p].value) >= 1
        /\ \E a, b \in matches :
             /\ a.id < b.id
             /\ b.id = ret[p].value[Len(ret[p].value)]
             /\ a.status = "DONE"
             /\ \/ Cardinality(teams) = 2 /\ a.teams = b.teams
                \/ Cardinality(teams) >= 3 /\ Cardinality(a.teams \cap b.teams) = 1

\* The other teams that share the fewest matches with team
FewestShared(ms, team) ==
    {o \in teams \ {team} :
        \A u \in teams \ {team} : Shared(ms, team, o) <= Shared(ms, team, u)}

\* C22: when another eligible team is among the teams that share the fewest
\* matches with the anchor, the opponent of the new match is eligible; a team
\* with a pending match or at the cap is the opponent only when none is.
C22_EligibleOpponentPreferred ==
    [][\A p \in Procs :
         SchedulerCreates(p) =>
             LET new_match == MatchById(matches', next_id)
             IN  \E team \in FirstTeams(teams, matches, nb_team_matches) :
                   \E opponent \in teams \ {team} :
                     /\ new_match.teams = {team, opponent}
                     /\ (FewestShared(matches, team) \cap Eligible # {}) =>
                            opponent \in Eligible
                     /\ opponent \notin Eligible =>
                            FewestShared(matches, team) \cap Eligible = {}]_vars

\* C22 witness: the scheduler gave the anchor an opponent that has another
\* pending match, the anchor never having met it, while a team without
\* pending match and under the cap was there that the anchor had met
C22_Witness ==
    \E p \in Procs :
        /\ call[p] = "create_next_matches"
        /\ Len(local[p].new_matches) = 1
        /\ LET b == MatchById(matches, local[p].new_matches[1])
               before == matches \ {b}
           IN  \E team, opponent \in b.teams :
                 /\ team # opponent
                 /\ NbMatchesPending(before, team) = 0
                 /\ NbMatchesPending(before, opponent) > 0
                 /\ Shared(before, team, opponent) = 0
                 /\ \E e \in teams \ b.teams :
                      /\ NbMatchesPending(before, e) = 0
                      /\ NbMatches(before, e) < nb_team_matches
                      /\ Shared(before, team, e) > 0

\* The anchor's order keys, read as the queryset annotates them
TiedWith(ms, t) ==
    {u \in teams : /\ NbMatches(ms, u) < nb_team_matches
                   /\ NbMatchesPending(ms, u) = 0
                   /\ NbMatches(ms, u) = NbMatches(ms, t)}
NoDoneMatch(ms, t) == \A m \in TeamMatches(ms, t) : m.status # "DONE"

\* C23: the anchor of a scheduling iteration has fewer matches than the cap
\* and no COMING or ONGOING match, no eligible team has fewer matches, no
\* eligible team with as many matches has an older end time of its latest
\* DONE match, and it has no DONE match if such a team with no DONE match
\* exists.
C23_AnchorFirstInOrder ==
    [][\A p \in Procs :
         SchedulerCreates(p) =>
             LET team == local'[p].team
             IN  /\ team \in teams
                 /\ team \in MatchById(matches', next_id).teams
                 /\ NbMatches(matches, team) < nb_team_matches
                 /\ NbMatchesPending(matches, team) = 0
                 /\ \A u \in teams :
                      (NbMatches(matches, u) < nb_team_matches
                           /\ NbMatchesPending(matches, u) = 0) =>
                          NbMatches(matches, team) <= NbMatches(matches, u)
                 /\ \A u \in TiedWith(matches, team) :
                      /\ (LastMatchEnd(matches, team) # NoDate
                              /\ LastMatchEnd(matches, u) # NoDate) =>
                             LastMatchEnd(matches, team) <= LastMatchEnd(matches, u)
                      /\ NoDoneMatch(matches, u) => NoDoneMatch(matches, team)]_vars

\* C23 witness: the scheduler has just given a match to an anchor whose
\* latest DONE match ended before that of another eligible team with as
\* many matches
C23_Witness ==
    \E p \in Procs :
        /\ pc[p] = "cnm_loop"
        /\ local[p].new_matches # <<>>
        /\ LET b == MatchById(matches, local[p].new_matches[Len(local[p].new_matches)])
               before == matches \ {b}
               team == local[p].team
           IN  /\ team \in b.teams
               /\ LastMatchEnd(before, team) # NoDate
               /\ \E u \in TiedWith(before, team) :
                    LastMatchEnd(before, u) > LastMatchEnd(before, team)

\* A step in which request p returns from create_next_matches past the gate
SchedulerReturns(p) ==
    /\ pc[p] = "cnm_loop"
    /\ pc'[p] = "idle"
    /\ ~ret'[p].raised

\* C24: when create_next_matches returns on a tournament that schedules
\* automatically and has two teams or more, every team has a COMING or
\* ONGOING match or has nb_team_matches matches or more.
C24_NoEligibleTeamAtReturn ==
    [][\A p \in Procs :
         (SchedulerReturns(p) /\ Cardinality(teams) >= 2) =>
             \A t \in teams' :
                 \/ NbMatchesPending(matches', t) > 0
                 \/ NbMatches(matches', t) >= nb_team_matches']_vars

\* C24 witness: a call that created a match has returned, leaving a team
\* with a pending match and a team that the cap alone keeps out
C24_Witness ==
    \E p \in Procs :
        /\ pc[p] = "idle"
        /\ ret[p].op = "create_next_matches"
        /\ ~ret[p].raised
        /\ Len(ret[p].value) >= 1
        /\ Cardinality(teams) >= 2
        /\ \E t \in teams : NbMatchesPending(matches, t) > 0
        /\ \E t \in teams : /\ NbMatchesPending(matches, t) = 0
                             /\ NbMatches(matches, t) >= nb_team_matches

\* A step in which the create_match of scheduler call p inserts its match
SchedulerInserts(p) ==
    /\ call[p] = "create_next_matches"
    /\ pc[p] = "cm_insert"
    /\ pc'[p] = "cm_status"

\* C25: with two create_next_matches calls running at once, a match that
\* the scheduler inserts never joins two teams that share a COMING or
\* ONGOING match at that moment, and its anchor has no COMING or ONGOING
\* match at that moment.
C25_RacingCallsKeepPairingRules ==
    [][\A p \in Procs :
         SchedulerInserts(p) =>
             /\ ~\E m \in matches : /\ m.status \in STATUSES_PENDING
                                     /\ local[p].opponents \subseteq m.teams
             /\ NbMatchesPending(matches, local[p].team) = 0]_vars

\* C26: update_match_statuses returns the matches that were COMING before
\* the call and are ONGOING after it, each once, by ascending ordering, and
\* nothing when no match changed.
C26_ReturnsPromotedInOrder ==
    [][\A p \in Procs : \A keep \in BOOLEAN :
         PassStep(p, keep) =>
             LET value == ret'[p].value
                 promoted == {m.id : m \in {x \in matches :
                                 /\ x.status = "COMING"
                                 /\ MatchById(matches', x.id).status = "ONGOING"}}
             IN  /\ {value[i] : i \in 1..Len(value)} = promoted
                 /\ Len(value) = Cardinality(promoted)
                 /\ \A i, j \in 1..Len(value) :
                      i < j => MatchById(matches, value[i]).ordering
                                   <= MatchById(matches, value[j]).ordering
                 /\ promoted = {} => value = <<>>]_vars

\* C26 witness: a pass returned two matches of different orderings and left
\* a third match COMING
C26_Witness ==
    \E p \in Procs : \E keep \in BOOLEAN :
        /\ PassReturned(p, keep)
        /\ Len(ret[p].value) = 2
        /\ MatchById(matches, ret[p].value[1]).ordering
               < MatchById(matches, ret[p].value[2]).ordering
        /\ \A i \in 1..2 : MatchById(matches, ret[p].value[i]).status = "ONGOING"
        /\ \E m \in matches : m.status = "COMING"

\* C27: after update_match_statuses(keep_match_order=False) every match
\* that is still COMING shares a team with an ONGOING match, and no team is
\* in two of the matches the call returned.
C27_UnorderedPassIsMaximal ==
    [][\A p \in Procs :
         PassStep(p, FALSE) =>
             LET value == ret'[p].value
             IN  /\ \A m \in matches' :
                      m.status = "COMING" =>
                          \E o \in matches' : /\ o.status = "ONGOING"
                                              /\ o.teams \cap m.teams # {}
                 /\ \A i, j \in 1..Len(value) :
                      i # j => MatchById(matches', value[i]).teams
                                  \cap MatchById(matches', value[j]).teams = {}]_vars

\* C27 witness: a pass without match order promoted a match that comes
\* after a match it left COMING, and promoted two matches in all
C27_Witness ==
    \E p \in Procs :
        /\ PassReturned(p, FALSE)
        /\ Len(ret[p].value) = 2
        /\ \E m \in matches :
             /\ m.status = "COMING"
             /\ m.ordering < MatchById(matches, ret[p].value[2]).ordering

\* C28: when matches are only created by create_match and the scheduler,
\* started by the status pass and finished from ONGOING, one request after
\* another from a tournament with no match, no team is in two ONGOING
\* matches.
C28_OneOngoingMatchPerTeam ==
    \A t \in teams :
        Cardinality({m \in matches : t \in m.teams /\ m.status = "ONGOING"}) <= 1

\* C28 witness: a team finished a match, plays another one and has a third
\* one waiting
C28_Witness ==
    \E t \in teams :
        /\ \E m \in matches : t \in m.teams /\ m.status = "DONE"
        /\ \E m \in matches : t \in m.teams /\ m.status = "ONGOING"
        /\ \E m \in matches : t \in m.teams /\ m.status = "COMING"

\* The sum of total_points over the first n entries of a returned list
RECURSIVE TotalPoints(_, _)
TotalPoints(rankings, n) ==
    IF n = 0 THEN 0 ELSE rankings[n].total_points + TotalPoints(rankings, n - 1)

\* The matches with two scores, of different values and of equal values, and
\* the matches with more scores (which two are compared is not fixed)
Decided2(ms) ==
    {m \in ms : Cardinality(m.scores) = 2 /\ \E s, u \in m.scores : s.value # u.value}
Drawn2(ms) ==
    {m \in ms : Cardinality(m.scores) = 2 /\ \A s, u \in m.scores : s.value = u.value}
Scored3Plus(ms) == {m \in ms : Cardinality(m.scores) > 2}

\* C29: in the list get_team_scores returns no total_points is negative and
\* the total_points add up to one point per match whose two scores differ
\* plus two points per match whose two scores are equal; matches with fewer
\* than two scores add nothing and a match with more than two scores adds
\* one or two points.
C29_PointsAddUp ==
    \A p \in Procs :
        ScoresReturned(p) =>
            LET rankings == ret[p].value
                total == TotalPoints(rankings, Len(rankings))
                fixed == Cardinality(Decided2(matches)) + 2 * Cardinality(Drawn2(matches))
            IN  /\ \A i \in 1..Len(rankings) : rankings[i].total_points >= 0
                /\ total >= fixed + Cardinality(Scored3Plus(matches))
                /\ total <= fixed + 2 * Cardinality(Scored3Plus(matches))

\* C29 witness: a list returned for a decided match, a drawn match and a
\* match with one score only, three points in all
C29_Witness ==
    \E p \in Procs :
        /\ ScoresReturned(p)
        /\ Cardinality(Decided2(matches)) = 1
        /\ Cardinality(Drawn2(matches)) = 1
        /\ \E m \in matches : Cardinality(m.scores) = 1
        /\ TotalPoints(ret[p].value, Len(ret[p].value)) = 3

\* C30: whenever the scheduler's loop is about to take an anchor, every
\* other participant of every match of that anchor is a team of the
\* tournament other than the anchor, i.e. a key of team_encounters: the
\* assertion of _create_single_match holds.
C30_CompetitorsAreTournamentTeams ==
    \A p \in Procs :
        pc[p] = "cnm_loop" =>
            \A team \in FirstTeams(teams, matches, nb_team_matches) :
                \A match \in TeamMatches(matches, team) :
                    \A competitor \in match.teams :
                        competitor # team => competitor \in teams \ {team}

\* C30 witness: the loop is about to take an anchor that played a match
\* against another team, while a match of the tournament kept one team only
\* of the two ids posted for it
C30_Witness ==
    \E p \in Procs :
        /\ pc[p] = "cnm_loop"
        /\ \E team \in FirstTeams(teams, matches, nb_team_matches) :
             \E match \in TeamMatches(matches, team) : match.teams # {team}
        /\ \E m \in matches : Cardinality(m.teams) = 1

====
